---- MODULE Spec2Model ----
(***************************************************************************)
(* The no-literal-string rule of eslint-plugin-i18next                     *)
(* (lib/rules/no-literal-string.js) as a state machine.                    *)
(*                                                                         *)
(* One behaviour is one traversal of one syntax tree.  The tree is built   *)
(* while it is walked: entering a node appends its record to `nodes' and   *)
(* pushes it on `stack' (the chain of ancestors of the current position),  *)
(* leaving a node pops it.  Selector handlers fire when a node is entered, *)
(* the ":exit" handler fires when a literal is left.                       *)
(*                                                                         *)
(* Spec walks a tree with one instance of the rule.  SpecPair walks it    *)
(* with two instances in lockstep: inst[1] is created with an option,      *)
(* inst[2] with the same option whose `ignore' list has one more pattern.  *)
(* Each instance owns the tables that create() allocates: visited,         *)
(* translationNodes, technicalNodes, complaints, and the list of reports   *)
(* handed to context.report.  An exception thrown by a handler ends the    *)
(* run of the instance (`aborted').                                        *)
(*                                                                         *)
(* The parser decides which services exist: a type checker, or a template  *)
(* body whose nodes go to the template-body visitor.                       *)
(*                                                                         *)
(* Text is a sequence of one-character strings, so that trimming and the   *)
(* regular expressions of the rule are computed rather than assumed.       *)
(***************************************************************************)
EXTENDS Integers, Sequences, FiniteSets, TLC

\* ------------------------------------------------------------------------
\* Bounds of the model
\* ------------------------------------------------------------------------
\* a tree of Spec holds one literal: its nodes, and the expression
\* containers nested in one another
MaxNodes == 7

MaxNest == 2

\* a tree of SpecPair: its nodes, nested expression containers, literals
MaxPairNodes == 4

MaxPairNest == 1

MaxPairLiterals == 2

\* ------------------------------------------------------------------------
\* Text helpers
\* ------------------------------------------------------------------------
Range(s) == {s[i] : i \in 1..Len(s)}

WhiteSpace == {" "}

UpperChars == {"A", "B", "_", "-"}

RECURSIVE TrimLeft(_)
TrimLeft(s) == IF s # <<>> /\ Head(s) \in WhiteSpace THEN TrimLeft(Tail(s)) ELSE s

RECURSIVE TrimRight(_)
TrimRight(s) ==
  IF s # <<>> /\ s[Len(s)] \in WhiteSpace
    THEN TrimRight(SubSeq(s, 1, Len(s) - 1))
    ELSE s

\* String.prototype.trim
Trim(s) == TrimRight(TrimLeft(s))

\* isUpperCase with the character class in lower case
isUpperCaseLowerClass(str) ==
  /\ Len(str) >= 1
  /\ \A i \in 1..Len(str) : str[i] \in {"a", "b", "_", "-"}

\* helper.isUpperCase: /^[A-Z_-]+$/.test(str).  A missing name (undefined)
\* is tested as the text "undefined", which has lowercase letters.
isUpperCase(str) ==
  /\ Len(str) >= 1
  /\ \A i \in 1..Len(str) : str[i] \in UpperChars

\* A pattern of `ignore' is a literal text with an optional ^ anchor:
\* new RegExp(item).test(str).
IsPrefixAt(lit, str, k) ==
  /\ k + Len(lit) - 1 <= Len(str)
  /\ \A i \in 1..Len(lit) : str[k + i - 1] = lit[i]

RegExpTest(pat, str) ==
  IF pat.anchored
    THEN IsPrefixAt(pat.lit, str, 1)
    ELSE \E k \in 1..(Len(str) + 1) : IsPrefixAt(pat.lit, str, k)

\* /\$\{[^}]+\}/u.test(text): "${", one or more characters other than "}",
\* then "}".
PlaceholderRegexTest(text) ==
  \E i \in 1..Len(text) : \E j \in (i + 3)..Len(text) :
    /\ text[i] = "$"
    /\ text[i + 1] = "{"
    /\ text[j] = "}"
    /\ \A k \in (i + 2)..(j - 1) : text[k] # "}"

\* ------------------------------------------------------------------------
\* Options and the lists compiled from them in create()
\* ------------------------------------------------------------------------
Pat(anchored, lit) == [anchored |-> anchored, lit |-> lit]

NoOption ==
  [present |-> FALSE, ignore |-> {}, ignoreCallee |-> {},
   ignoreProperties |-> {}, ignoreTags |-> {}]

\* { ignore: ['^a'], ignoreCallee: ['socket.on', 'call'],
\*   ignoreTags: [{ tag: ['b', '*'], attributes: ['className'] }] }
OptionIgnore ==
  [present |-> TRUE, ignore |-> {Pat(TRUE, <<"a">>)},
   ignoreCallee |-> {<<"socket", "on">>, <<"call">>},
   ignoreProperties |-> {},
   ignoreTags |-> {[tagIsString |-> FALSE, tag |-> "", tags |-> {"b", "*"},
                    attributes |-> {"className"}]}]

\* { ignoreProperties: ['foo'],
\*   ignoreTags: [{ tag: 'div', attributes: ['title'] },
\*                { tag: ['b', 'Trans'], attributes: ['className'] }] }
OptionTags ==
  [present |-> TRUE, ignore |-> {}, ignoreCallee |-> {},
   ignoreProperties |-> {<<"f">>},
   ignoreTags |-> {[tagIsString |-> TRUE, tag |-> "div", tags |-> {},
                    attributes |-> {"title"}],
                   [tagIsString |-> FALSE, tag |-> "", tags |-> {"b", "Trans"},
                    attributes |-> {"className"}]}]

Options == {NoOption, OptionIgnore, OptionTags}

ExtraPatterns == {Pat(FALSE, <<"a">>)}

\* whitelists with option.ignore never read
whitelistsEmpty(opt) == {}

\* const whitelists = ((option && option.ignore) || []).map(item => new RegExp(item))
whitelists(opt) == IF opt.present THEN opt.ignore ELSE {}

\* const propWhitelist = (option && option.ignoreProperties) || []
propWhitelist(opt) == IF opt.present THEN opt.ignoreProperties ELSE {}

\* tagAttrWhiteList: a string tag becomes a one-element list
tagAttrWhiteList(opt) ==
  IF opt.present
    THEN {[tags |-> IF e.tagIsString THEN {e.tag} ELSE e.tags,
           attributes |-> e.attributes] : e \in opt.ignoreTags}
    ELSE {}

popularCallee == {"addEventListener", "dispatch", "commit", "includes", "indexOf"}

\* An ignoreCallee item is a dotted name, kept as the sequence of its
\* segments: item.indexOf('.') !== -1 is Len(item) > 1.
generateCalleeWhitelists(opt) ==
  LET ignoreCallee == IF opt.present THEN opt.ignoreCallee ELSE {}
  IN [simple  |-> popularCallee \cup {c[1] : c \in {d \in ignoreCallee : Len(d) = 1}},
      complex |-> {c \in ignoreCallee : Len(c) > 1}]

\* option.ignoreTranslatorCallee is not in the schema (additionalProperties:
\* false), so the list of the translator callees is the default one.
generateTranslatorWhitelists(opt) ==
  [simple  |-> {"i18n", "i18next", "t", "T"},
   complex |-> {<<"i18n", "t">>, <<"i18next", "t">>}]

match(opt, str) == \E item \in whitelists(opt) : RegExpTest(item, str)

\* ------------------------------------------------------------------------
\* Callees.  A callee is its type and the dotted segments of its text:
\* <<"this", "socket", "on">> is this.socket.on.
\* ------------------------------------------------------------------------
\* text ends with c
IsSuffix(c, text) ==
  /\ Len(c) <= Len(text)
  /\ \A i \in 1..Len(c) : text[Len(text) - Len(c) + i] = c[i]

\* callee.object.name: defined only when the object is an Identifier
ObjectName(callee) ==
  IF Len(callee) = 2 /\ callee[1] # "this" THEN callee[1] ELSE "undefined"

\* the characters of a name
Spell(name) ==
  CASE name = "socket" -> <<"s", "o", "c", "k", "e", "t">>
    [] name = "xsocket" -> <<"x", "s", "o", "c", "k", "e", "t">>
    [] name = "on" -> <<"o", "n">>
    [] name = "this" -> <<"t", "h", "i", "s">>
    [] name = "i18n" -> <<"i", "1", "8", "n">>
    [] name = "i18next" -> <<"i", "1", "8", "n", "e", "x", "t">>
    [] name = "indexOf" -> <<"i", "n", "d", "e", "x", "O", "f">>
    [] name = "call" -> <<"c", "a", "l", "l">>
    [] OTHER -> <<name>>

\* context.getSourceCode().getText(callee), and the text of a list item:
\* the names joined by "."
RECURSIVE getText(_)
getText(callee) ==
  IF Len(callee) = 1 THEN Spell(callee[1])
  ELSE Spell(callee[1]) \o <<".">> \o getText(Tail(callee))

\* String.prototype.endsWith
endsWith(str, suffix) == IsSuffix(suffix, str)

\* the member-access test with endsWith(c) in place of endsWith("." + c)
CalleeMatchesUnanchored(lists, calleeType, callee) ==
  IF calleeType = "MemberExpression"
    THEN \/ callee[Len(callee)] \in lists.simple
         \/ <<ObjectName(callee), callee[Len(callee)]>> \in lists.complex
         \/ \E c \in lists.complex : endsWith(getText(callee), getText(c))
    ELSE calleeType = "Identifier" /\ callee[1] \in lists.simple

CalleeMatches(lists, calleeType, callee) ==
  IF calleeType = "MemberExpression"
    THEN \/ callee[Len(callee)] \in lists.simple
         \/ <<ObjectName(callee), callee[Len(callee)]>> \in lists.complex
         \/ \E c \in lists.complex :
              endsWith(<<".">> \o getText(callee), <<".">> \o getText(c))
    ELSE calleeType = "Identifier" /\ callee[1] \in lists.simple

isTranlationFunctionCall(opt, node) ==
  CalleeMatches(generateTranslatorWhitelists(opt), node.calleeType, node.callee)

isTechnicalFunctionCall(opt, node) ==
  \/ node.calleeType = "Import"
  \/ node.calleeType = "Identifier" /\ node.callee[1] = "require"
  \/ CalleeMatches(generateCalleeWhitelists(opt), node.calleeType, node.callee)

\* ------------------------------------------------------------------------
\* The tree
\* ------------------------------------------------------------------------
Node0 ==
  [type |-> "Program", parent |-> 0, value |-> <<>>, isStr |-> FALSE,
   name |-> <<>>, tag |-> "", calleeType |-> "", callee |-> <<>>,
   isKey |-> FALSE, typeMatch |-> FALSE]

LiteralTypes == {"Literal", "TemplateLiteral", "JSXText"}

\* the nodes without children: the literals, and the text of a template body
LeafTypes == LiteralTypes \cup {"VText"}

RECURSIVE getAncestors(_, _)
getAncestors(ns, n) ==
  IF ns[n].parent = 0 THEN {} ELSE {ns[n].parent} \cup getAncestors(ns, ns[n].parent)

\* the nearest strict ancestor of the type, 0 for null
RECURSIVE getNearestAncestor(_, _, _)
getNearestAncestor(ns, n, type) ==
  LET temp == ns[n].parent
  IN IF temp = 0 THEN 0
     ELSE IF ns[temp].type = type THEN temp
     ELSE getNearestAncestor(ns, temp, type)

HasAncestorOfType(ns, n, type) == getNearestAncestor(ns, n, type) # 0

ParentType(ns, n) == IF ns[n].parent = 0 THEN "" ELSE ns[ns[n].parent].type

\* typeof node.value === 'string' || node.type === 'TemplateLiteral'
isString(node) == node.isStr \/ node.type = "TemplateLiteral"

\* ------------------------------------------------------------------------
\* The tables of one rule instance, and the messages of its findings
\* ------------------------------------------------------------------------
MsgProperty == "Forbidden literal assigned to property"

MsgPlaceholder == "Forbidden template literal placeholder in translation string"

MsgAttribute == "Forbidden literal string as value for attribute"

MsgGeneric == "Forbidden literal string"

NewInstance ==
  [visited |-> {}, translationNodes |-> {}, technicalNodes |-> {},
   complaints |-> {}, reports |-> <<>>, aborted |-> FALSE]

visitedAdd(s, n) == [s EXCEPT !.visited = @ \cup {n}]

\* complaints.set(node, ...): a Map keeps one entry per node
complaintsSet(s, n, msg) ==
  [s EXCEPT !.complaints = {c \in @ : c[1] # n} \cup {<<n, msg>>}]

complaintsHas(s, n) == \E c \in s.complaints : c[1] = n

complaintsGet(s, n) == (CHOOSE c \in s.complaints : c[1] = n)[2]

\* context.report(descriptor)
report(s, n, msg) ==
  [s EXCEPT !.reports = Append(@, [node |-> n, message |-> msg])]

\* checkTechnicalParents looking at the parent alone
checkTechnicalParentOnly(s, ns, n) == ns[n].parent \in s.technicalNodes

checkTechnicalParents(s, ns, n) ==
  \E x \in getAncestors(ns, n) : x \in s.technicalNodes

checkTranslationParents(s, ns, n) ==
  \E x \in getAncestors(ns, n) : x \in s.translationNodes

\* ------------------------------------------------------------------------
\* Handlers fired when a node that is no literal is entered
\* ------------------------------------------------------------------------
\* the opening-element handler tagging the opening element, not the element
JSXOpeningElementHandlerSelf(s, ns, n) ==
  IF /\ ns[n].type = "JSXOpeningElement"
     /\ ParentType(ns, n) = "JSXElement"
     /\ ns[n].tag \in {"Trans", "Translation"}
    THEN [s EXCEPT !.translationNodes = @ \cup {n}]
    ELSE s

\* 'JSXElement > JSXOpeningElement'
JSXOpeningElementHandler(s, ns, n) ==
  IF /\ ns[n].type = "JSXOpeningElement"
     /\ ParentType(ns, n) = "JSXElement"
     /\ ns[n].tag \in {"Trans", "Translation"}
    THEN [s EXCEPT !.translationNodes = @ \cup {ns[n].parent}]
    ELSE s

\* the attribute handler without the wildcard
JSXAttributeHandlerNoWildcard(opt, s, ns, n) ==
  LET element == getNearestAncestor(ns, n, "JSXOpeningElement")
  IN IF /\ ns[n].type = "JSXAttribute"
        /\ element # 0
        /\ \E entry \in tagAttrWhiteList(opt) :
             /\ ns[element].tag \in entry.tags
             /\ ns[n].tag \in entry.attributes
       THEN [s EXCEPT !.technicalNodes = @ \cup {n}]
       ELSE s

\* 'JSXAttribute'
JSXAttributeHandler(opt, s, ns, n) ==
  LET element == getNearestAncestor(ns, n, "JSXOpeningElement")
  IN IF /\ ns[n].type = "JSXAttribute"
        /\ element # 0
        /\ \E entry \in tagAttrWhiteList(opt) :
             /\ ("*" \in entry.tags \/ ns[element].tag \in entry.tags)
             /\ ns[n].tag \in entry.attributes
       THEN [s EXCEPT !.technicalNodes = @ \cup {n}]
       ELSE s

\* 'TaggedTemplateExpression': the tag is an Identifier, or a call whose
\* callee name is taken; any other tag has no name.
TaggedTemplateExpressionHandler(s, ns, n) ==
  IF /\ ns[n].type = "TaggedTemplateExpression"
     /\ ns[n].calleeType \in {"Identifier", "CallExpression"}
     /\ ns[n].tag \in {"t", "T"}
    THEN [s EXCEPT !.translationNodes = @ \cup {n}]
    ELSE s

\* the call handler that tags translation calls only
CallExpressionHandlerTranslationOnly(opt, s, ns, n) ==
  IF ns[n].type = "CallExpression" /\ isTranlationFunctionCall(opt, ns[n])
    THEN [s EXCEPT !.translationNodes = @ \cup {n}]
    ELSE s

\* 'CallExpression'
CallExpressionHandler(opt, s, ns, n) ==
  IF ns[n].type # "CallExpression" THEN s
  ELSE LET s1 == IF isTranlationFunctionCall(opt, ns[n])
                   THEN [s EXCEPT !.translationNodes = @ \cup {n}] ELSE s
       IN IF isTechnicalFunctionCall(opt, ns[n])
            THEN [s1 EXCEPT !.technicalNodes = @ \cup {n}] ELSE s1

EnterHandlers(opt, s, ns, n) ==
  CallExpressionHandler(opt,
    TaggedTemplateExpressionHandler(
      JSXAttributeHandler(opt, JSXOpeningElementHandler(s, ns, n), ns, n),
      ns, n),
    ns, n)

\* ------------------------------------------------------------------------
\* Handlers fired when a Literal or a TemplateLiteral is entered
\* ------------------------------------------------------------------------
IsLiteralOrTemplate(node) == node.type \in {"Literal", "TemplateLiteral"}

\* 'ImportDeclaration :matches(Literal, TemplateLiteral)'
ImportDeclarationLiteral(s, ns, n) ==
  IF HasAncestorOfType(ns, n, "ImportDeclaration") THEN visitedAdd(s, n) ELSE s

\* 'ExportAllDeclaration :matches(Literal, TemplateLiteral)'
ExportAllDeclarationLiteral(s, ns, n) ==
  IF HasAncestorOfType(ns, n, "ExportAllDeclaration") THEN visitedAdd(s, n) ELSE s

\* 'ExportNamedDeclaration > :matches(Literal, TemplateLiteral)'
ExportNamedDeclarationLiteral(s, ns, n) ==
  IF ParentType(ns, n) = "ExportNamedDeclaration" THEN visitedAdd(s, n) ELSE s

\* 'TSModuleDeclaration :matches(Literal, TemplateLiteral)'
TSModuleDeclarationLiteral(s, ns, n) ==
  IF HasAncestorOfType(ns, n, "TSModuleDeclaration") THEN visitedAdd(s, n) ELSE s

\* 'TSEnumDeclaration :matches(Literal, TemplateLiteral)'
TSEnumDeclarationLiteral(s, ns, n) ==
  IF HasAncestorOfType(ns, n, "TSEnumDeclaration") THEN visitedAdd(s, n) ELSE s

\* 'TSLiteralType :matches(Literal, TemplateLiteral)'
TSLiteralTypeLiteral(s, ns, n) ==
  IF HasAncestorOfType(ns, n, "TSLiteralType") THEN visitedAdd(s, n) ELSE s

\* the declarator handler without the test of the bound name
VariableDeclaratorLiteralAnyName(s, ns, n) ==
  IF ParentType(ns, n) = "VariableDeclarator" THEN visitedAdd(s, n) ELSE s

\* 'VariableDeclarator > :matches(Literal, TemplateLiteral)'
VariableDeclaratorLiteral(s, ns, n) ==
  IF /\ ParentType(ns, n) = "VariableDeclarator"
     /\ isUpperCase(ns[ns[n].parent].name)
    THEN visitedAdd(s, n) ELSE s

\* 'TSAsExpression > :matches(Literal, TemplateLiteral)'
TSAsExpressionLiteral(s, ns, n) ==
  IF ParentType(ns, n) = "TSAsExpression" THEN visitedAdd(s, n) ELSE s

\* 'Property :matches(Literal, TemplateLiteral)'.  The Property record holds
\* its key: tag is the key's type, name is key.name (Identifier) or
\* key.value (Literal); the key literal itself is the child with isKey.
PropertyLiteral(opt, s, ns, n) ==
  LET parent == getNearestAncestor(ns, n, "Property")
      node == ns[n]
  IN IF parent = 0 THEN s
     ELSE IF ~isString(node) THEN s
     ELSE IF node.parent = parent /\ node.isKey THEN visitedAdd(s, n)
     ELSE IF node.isStr /\ (Trim(node.value) = <<>> \/ match(opt, Trim(node.value)))
       THEN s
     ELSE IF ns[parent].tag = "Identifier" /\ ns[parent].name \in propWhitelist(opt)
       THEN visitedAdd(s, n)
     ELSE IF isUpperCase(ns[parent].name) THEN visitedAdd(s, n)
     ELSE complaintsSet(s, n, MsgProperty)

\* the binary-expression handler without the test of the operator
BinaryExpressionLiteralAnyOperator(s, ns, n) ==
  IF ParentType(ns, n) = "BinaryExpression" THEN visitedAdd(s, n) ELSE s

\* 'BinaryExpression > :matches(Literal, TemplateLiteral)'
BinaryExpressionLiteral(s, ns, n) ==
  IF ParentType(ns, n) = "BinaryExpression" /\ ns[ns[n].parent].tag # "+"
    THEN visitedAdd(s, n) ELSE s

\* 'SwitchCase > :matches(Literal, TemplateLiteral)'
SwitchCaseLiteral(s, ns, n) ==
  IF ParentType(ns, n) = "SwitchCase" THEN visitedAdd(s, n) ELSE s

\* 'JSXElement > :matches(Literal, TemplateLiteral)' calls
\* scriptVisitor.JSXText, which the visitor does not define: a TypeError.
JSXElementLiteralThrows(ns, n) ==
  IsLiteralOrTemplate(ns[n]) /\ ParentType(ns, n) = "JSXElement"

EnterLiteralHandlers(opt, s, ns, n) ==
  SwitchCaseLiteral(
  BinaryExpressionLiteral(
  PropertyLiteral(opt,
  TSAsExpressionLiteral(
  VariableDeclaratorLiteral(
  TSLiteralTypeLiteral(
  TSEnumDeclarationLiteral(
  TSModuleDeclarationLiteral(
  ExportNamedDeclarationLiteral(
  ExportAllDeclarationLiteral(
  ImportDeclarationLiteral(s, ns, n),
  ns, n), ns, n), ns, n), ns, n), ns, n), ns, n), ns, n), ns, n), ns, n), ns, n)

\* ------------------------------------------------------------------------
\* ':matches(Literal, TemplateLiteral, JSXText):exit'
\* ------------------------------------------------------------------------
\* context.getSourceCode().getText(node) of a template literal is its raw
\* text between back quotes; node.value holds that text for a template.
HasPlaceholder(node) ==
  node.type = "TemplateLiteral" /\ PlaceholderRegexTest(node.value)

\* A TypeError (attribute.name.name with no JSXAttribute ancestor) ends
\* the run of the instance: aborted.
LiteralExit(opt, s, ns, n) ==
  LET node == ns[n]
      inTranslation == checkTranslationParents(s, ns, n)
      s1 == IF inTranslation /\ HasPlaceholder(node)
              THEN complaintsSet(s, n, MsgPlaceholder) ELSE s
      trimmed == Trim(node.value)
      element == getNearestAncestor(ns, n, "JSXOpeningElement")
      attribute == getNearestAncestor(ns, n, "JSXAttribute")
      s2 == IF element # 0 THEN complaintsSet(s1, n, MsgAttribute) ELSE s1
  IN IF ~isString(node) THEN s
     ELSE IF n \in s.visited THEN s
     ELSE IF inTranslation /\ ~HasPlaceholder(node) THEN s
     ELSE IF checkTechnicalParents(s1, ns, n) THEN s1
     ELSE IF node.isStr /\ trimmed = <<>> THEN s1
     ELSE IF node.isStr /\ isUpperCase(trimmed) THEN s1
     ELSE IF node.isStr /\ match(opt, trimmed) THEN s1
     ELSE IF element # 0 /\ attribute = 0 THEN [s1 EXCEPT !.aborted = TRUE]
     ELSE report(s2, n,
                 IF complaintsHas(s2, n) THEN complaintsGet(s2, n) ELSE MsgGeneric)

\* ------------------------------------------------------------------------
\* The visitor create() returns.  With defineTemplateBodyVisitor the nodes of
\* the template body go to the template visitor and the nodes of the script
\* to scriptVisitor; without it every node goes to scriptVisitor.
\* ------------------------------------------------------------------------
InTemplateBody(ns, n) ==
  ns[n].type = "VElement" \/ HasAncestorOfType(ns, n, "VElement")

\* VText(node) calls scriptVisitor['JSXText'], which is not defined
VTextThrows(ns, n) == ns[n].type = "VText"

\* 'VExpressionContainer CallExpression :matches(Literal, TemplateLiteral)'
\* calls scriptVisitor['CallExpression :matches(Literal, TemplateLiteral)'],
\* which is not defined
VExpressionCallLiteralThrows(ns, n) ==
  /\ IsLiteralOrTemplate(ns[n])
  /\ \E c \in getAncestors(ns, n) :
       /\ ns[c].type = "CallExpression"
       /\ HasAncestorOfType(ns, c, "VExpressionContainer")

\* a node that is no leaf is entered
EnterVisitor(opt, s, ns, n) ==
  IF InTemplateBody(ns, n) THEN s ELSE EnterHandlers(opt, s, ns, n)

\* a leaf is entered
EnterLeafVisitor(opt, s, ns, n) ==
  IF InTemplateBody(ns, n)
    THEN IF VTextThrows(ns, n) \/ VExpressionCallLiteralThrows(ns, n)
           THEN [s EXCEPT !.aborted = TRUE]
           ELSE s
  ELSE IF JSXElementLiteralThrows(ns, n) THEN [s EXCEPT !.aborted = TRUE]
  ELSE IF IsLiteralOrTemplate(ns[n]) THEN EnterLiteralHandlers(opt, s, ns, n)
  ELSE s

\* a leaf is left: 'VExpressionContainer :matches(Literal,
\* TemplateLiteral):exit' in a template body, the exit handler of
\* scriptVisitor elsewhere
ExitVisitor(opt, s, ns, n) ==
  IF InTemplateBody(ns, n)
    THEN IF IsLiteralOrTemplate(ns[n])
              /\ HasAncestorOfType(ns, n, "VExpressionContainer")
           THEN LiteralExit(opt, s, ns, n)
           ELSE s
    ELSE LiteralExit(opt, s, ns, n)

\* ------------------------------------------------------------------------
\* The trees the traversal walks: the node kinds the handlers tell apart,
\* and what may stand below what
\* ------------------------------------------------------------------------
StringValues ==
  {<<" ">>, <<"A">>, <<"A", "1">>, <<"1">>, <<"a">>, <<"b", "a">>}

\* raw text of a template: blank, upper case, with a hole, with an escaped
\* dollar sign (no hole)
TemplateTexts ==
  {<<" ">>, <<"A">>, <<"a", "$", "{", "x", "}">>, <<"\\", "$", "{", "x", "}">>}

JSXTextValues == {<<" ">>, <<"A">>, <<"a">>}

\* the text between two tags as the TypeScript parser once gave it: a
\* Literal that is a child of the element
JSXLiterals ==
  {[Node0 EXCEPT !.type = "Literal", !.value = v, !.isStr = TRUE] :
     v \in JSXTextValues}

BindingNames == {<<"a">>, <<"A", "_">>, <<"A", "1">>}

\* the source of an import or an export, the name of a module declaration
ModuleNames ==
  {[Node0 EXCEPT !.type = "Literal", !.value = v, !.isStr = TRUE] :
     v \in {<<"a">>, <<"b", "a">>}}

Callees ==
  {[calleeType |-> "Import", callee |-> <<"import">>],
   [calleeType |-> "Identifier", callee |-> <<"require">>],
   [calleeType |-> "Identifier", callee |-> <<"call">>],
   [calleeType |-> "Identifier", callee |-> <<"t">>],
   [calleeType |-> "MemberExpression", callee |-> <<"a", "indexOf">>],
   [calleeType |-> "MemberExpression", callee |-> <<"this", "socket", "on">>],
   [calleeType |-> "MemberExpression", callee |-> <<"xsocket", "on">>]}

ExprTypes ==
  {"CallExpression", "BinaryExpression", "Property", "ArrayExpression",
   "TaggedTemplateExpression", "TSAsExpression", "JSXElement", "VElement"}

Nd(type) == [Node0 EXCEPT !.type = type]

\* a quoted string; with a type checker, the literal "a" stands also where
\* its contextual type has the member "a"
StringLiterals(tc) ==
  {[Node0 EXCEPT !.type = "Literal", !.value = v, !.isStr = TRUE] :
     v \in StringValues}
  \cup (IF tc THEN {[Node0 EXCEPT !.type = "Literal", !.value = <<"a">>,
                                  !.isStr = TRUE, !.typeMatch = TRUE]}
              ELSE {})

\* a literal that is no string (a number)
OtherLiteral == [Node0 EXCEPT !.type = "Literal", !.value = <<"1">>]

TemplateLiterals ==
  {[Node0 EXCEPT !.type = "TemplateLiteral", !.value = v] : v \in TemplateTexts}

ExprLeaves(tc) == StringLiterals(tc) \cup {OtherLiteral} \cup TemplateLiterals

\* callees of the calls that are statements, in addition to Callees
StatementCallees ==
  {[calleeType |-> "Identifier", callee |-> <<"dispatch">>],
   [calleeType |-> "MemberExpression", callee |-> <<"a", "call">>],
   [calleeType |-> "MemberExpression", callee |-> <<"socket", "on">>]}

Calls(callees) ==
  {[Node0 EXCEPT !.type = "CallExpression", !.calleeType = c.calleeType,
                 !.callee = c.callee] : c \in callees}

ExprContainers ==
  Calls(Callees)
  \cup {[Node0 EXCEPT !.type = "BinaryExpression", !.tag = op] : op \in {"+", "==="}}
  \cup {[Node0 EXCEPT !.type = "Property", !.tag = "Identifier", !.name = k] :
          k \in {<<"f">>, <<"A", "_">>}}
  \cup {[Node0 EXCEPT !.type = "Property", !.tag = "Literal", !.name = <<"a">>]}
  \cup {[Node0 EXCEPT !.type = "TaggedTemplateExpression",
                      !.calleeType = "Identifier", !.tag = g] : g \in {"t", "css"}}
  \cup {Nd("ArrayExpression"), Nd("TSAsExpression"), Nd("JSXElement")}

Exprs(tc) == ExprLeaves(tc) \cup ExprContainers

Declarators(names) ==
  {[Node0 EXCEPT !.type = "VariableDeclarator", !.name = k] : k \in names}

Statements ==
  {Nd("ImportDeclaration"), Nd("ExportAllDeclaration"), Nd("ExportNamedDeclaration"),
   Nd("SwitchCase"), Nd("TSModuleDeclaration"), Nd("TSEnumDeclaration"),
   Nd("TSLiteralType")}
  \cup Declarators(BindingNames)

HasChild(ns, p) == \E i \in 1..Len(ns) : ns[i].parent = p

HasLiteralBelow(ns, p) ==
  \E i \in 1..Len(ns) : ns[i].type \in LeafTypes /\ p \in getAncestors(ns, i)

\* the nodes that may be entered next below node p; a template body holds
\* no JSX
Children(ns, p, tc, tb) ==
  LET t == ns[p].type
      all ==
     CASE t = "Program" ->
            IF tb THEN {Nd("VElement")}
            ELSE Statements \cup Exprs(tc) \cup Calls(StatementCallees)
       [] t = "VElement" ->
            {[Node0 EXCEPT !.type = "VText", !.value = v, !.isStr = TRUE] :
               v \in JSXTextValues}
            \cup {Nd("VExpressionContainer")}
       [] t = "VExpressionContainer" ->
            IF HasChild(ns, p) THEN {} ELSE Exprs(FALSE)
       [] t \in {"ImportDeclaration", "ExportAllDeclaration"} ->
            IF HasChild(ns, p) THEN {} ELSE ModuleNames
       [] t \in {"ExportNamedDeclaration", "TSModuleDeclaration"} ->
            IF HasChild(ns, p) THEN {}
            ELSE ModuleNames \cup Declarators({<<"a">>})
       [] t = "SwitchCase" ->
            IF HasChild(ns, p) THEN Declarators({<<"a">>})
            ELSE StringLiterals(FALSE) \cup Declarators({<<"a">>})
       \* an initializer is a literal; the other expressions stand as
       \* statements
       [] t = "VariableDeclarator" ->
            IF HasChild(ns, p) THEN {} ELSE ExprLeaves(tc)
       \* the members of an enum: a literal, or a concatenation
       [] t = "TSEnumDeclaration" ->
            ExprLeaves(tc)
            \cup {[Node0 EXCEPT !.type = "BinaryExpression", !.tag = "+"]}
       [] t = "TSLiteralType" ->
            IF HasChild(ns, p) THEN {}
            ELSE StringLiterals(FALSE) \cup {OtherLiteral}
                 \cup {l \in TemplateLiterals : ~PlaceholderRegexTest(l.value)}
       [] t = "TaggedTemplateExpression" ->
            IF HasChild(ns, p) THEN {} ELSE TemplateLiterals
       [] t = "Property" ->
            IF ns[p].tag = "Literal" /\ ~HasChild(ns, p)
              THEN {[Node0 EXCEPT !.type = "Literal", !.value = ns[p].name,
                                  !.isStr = TRUE, !.isKey = TRUE]}
              ELSE Exprs(tc)
       [] t = "JSXElement" ->
            IF ~HasChild(ns, p)
              THEN {[Node0 EXCEPT !.type = "JSXOpeningElement", !.tag = g] :
                      g \in {"div", "Trans"}}
              ELSE {[Node0 EXCEPT !.type = "JSXText", !.value = v, !.isStr = TRUE] :
                      v \in JSXTextValues}
                   \cup {Nd("JSXExpressionContainer"), Nd("JSXElement")}
                   \cup (IF tc THEN JSXLiterals ELSE {})
       [] t = "JSXOpeningElement" ->
            {[Node0 EXCEPT !.type = "JSXAttribute", !.tag = a] :
               a \in {"className", "title"}}
            \cup {Nd("JSXSpreadAttribute")}
       [] t = "JSXSpreadAttribute" ->
            IF HasChild(ns, p) THEN {} ELSE Exprs(tc)
       [] t = "JSXAttribute" ->
            IF HasChild(ns, p) THEN {}
            ELSE StringLiterals(tc) \cup {Nd("JSXExpressionContainer")}
       [] t = "JSXExpressionContainer" ->
            IF HasChild(ns, p) THEN {} ELSE Exprs(tc)
       [] t \in LeafTypes -> {}
       [] OTHER -> Exprs(tc)
  IN IF InTemplateBody(ns, p) THEN {c \in all : c.type # "JSXElement"} ELSE all

\* ------------------------------------------------------------------------
\* State
\* ------------------------------------------------------------------------
VARIABLES
  options,      \* options[i]: the option record instance i was created with
  typeChecker,  \* parserServices has program and esTreeNodeToTSNodeMap
  templateBody, \* parserServices has defineTemplateBodyVisitor
  limits,       \* the bounds of the trees of this behaviour
  nodes,        \* the nodes entered so far; a node's id is its index
  stack,        \* the ids of the nodes entered and not yet left
  inst          \* inst[i]: the tables of instance i

vars == <<options, typeChecker, templateBody, limits, nodes, stack, inst>>

Instances == 1..Len(inst)

Top == stack[Len(stack)]

LitCount == Cardinality({i \in 1..Len(nodes) : nodes[i].type \in LeafTypes})

Nest == Cardinality({i \in 1..Len(stack) : nodes[stack[i]].type \in ExprTypes})

\* create() runs once per instance, then the traversal starts at Program
InitWith(opts, tc, tb, lim) ==
  /\ options = opts
  /\ typeChecker = tc
  /\ templateBody = tb
  /\ limits = lim
  /\ nodes = <<Node0>>
  /\ stack = <<1>>
  /\ inst = [i \in 1..Len(opts) |-> NewInstance]

\* the services of the parser: none (babel-eslint), a type checker
\* (@typescript-eslint/parser), a template body (vue-eslint-parser)
ParserServices(o) ==
  IF o = NoOption
    THEN {[tc |-> FALSE, tb |-> FALSE], [tc |-> TRUE, tb |-> FALSE],
          [tc |-> FALSE, tb |-> TRUE]}
    ELSE {[tc |-> FALSE, tb |-> FALSE]}

Init ==
  \E o \in Options : \E ps \in ParserServices(o) :
    InitWith(<<o>>, ps.tc, ps.tb,
             [nodes |-> MaxNodes, nest |-> MaxNest, literals |-> 1])

\* the second instance has one more pattern in `ignore'
Extended(o, pat) ==
  [o EXCEPT !.present = TRUE, !.ignore = (IF o.present THEN o.ignore ELSE {}) \cup {pat}]

InitPair ==
  \E o \in Options : \E pat \in ExtraPatterns :
    InitWith(<<o, Extended(o, pat)>>, FALSE, FALSE,
             [nodes |-> MaxPairNodes, nest |-> MaxPairNest,
              literals |-> MaxPairLiterals])

\* a handler of an instance whose run was ended by an exception runs no more
Apply(i, next) == IF inst[i].aborted THEN inst[i] ELSE next

\* a node that is no literal is entered
EnterNode ==
  /\ stack # <<>>
  /\ LitCount < limits.literals
  /\ Len(nodes) + 1 < limits.nodes
  /\ \E c \in Children(nodes, Top, typeChecker, templateBody) :
       /\ c.type \notin LeafTypes
       /\ c.type \in ExprTypes => Nest < limits.nest
       /\ LET n == Len(nodes) + 1
              ns == Append(nodes, [c EXCEPT !.parent = Top])
          IN /\ nodes' = ns
             /\ stack' = Append(stack, n)
             /\ inst' = [i \in Instances |->
                           Apply(i, EnterVisitor(options[i], inst[i], ns, n))]
  /\ UNCHANGED <<options, typeChecker, templateBody, limits>>

\* a Literal, a TemplateLiteral or a JSXText is entered
EnterLiteral ==
  /\ stack # <<>>
  /\ LitCount < limits.literals
  /\ Len(nodes) < limits.nodes
  /\ \E c \in Children(nodes, Top, typeChecker, templateBody) :
       /\ c.type \in LeafTypes
       /\ LET n == Len(nodes) + 1
              ns == Append(nodes, [c EXCEPT !.parent = Top])
          IN /\ nodes' = ns
             /\ stack' = Append(stack, n)
             /\ inst' = [i \in Instances |->
                           Apply(i, EnterLeafVisitor(options[i], inst[i], ns, n))]
  /\ UNCHANGED <<options, typeChecker, templateBody, limits>>

\* the literal on top of the stack is left: the exit handler fires
ExitLiteral ==
  /\ stack # <<>>
  /\ nodes[Top].type \in LeafTypes
  /\ inst' = [i \in Instances |->
                Apply(i, ExitVisitor(options[i], inst[i], nodes, Top))]
  /\ stack' = SubSeq(stack, 1, Len(stack) - 1)
  /\ UNCHANGED <<options, typeChecker, templateBody, limits, nodes>>

\* a node that is no literal is left; the trees walked have a literal below
\* every node, an opening element apart
ExitNode ==
  /\ stack # <<>>
  /\ nodes[Top].type \notin LeafTypes
  /\ nodes[Top].type = "JSXOpeningElement" \/ HasLiteralBelow(nodes, Top)
  /\ stack' = SubSeq(stack, 1, Len(stack) - 1)
  /\ UNCHANGED <<options, typeChecker, templateBody, limits, nodes, inst>>

Next == EnterNode \/ EnterLiteral \/ ExitLiteral \/ ExitNode

Spec == Init /\ [][Next]_vars

SpecPair == InitPair /\ [][Next]_vars

\* ------------------------------------------------------------------------
\* Verdicts
\* ------------------------------------------------------------------------
\* the literal nodes whose exit handler has run
ExitedLiterals ==
  {n \in 1..Len(nodes) : nodes[n].type \in LiteralTypes /\ n \notin Range(stack)}

\* instance i emitted a finding for node n
Reported(i, n) ==
  \E k \in 1..Len(inst[i].reports) : inst[i].reports[k].node = n

MessageOf(i, n) ==
  inst[i].reports[CHOOSE k \in 1..Len(inst[i].reports) :
                    inst[i].reports[k].node = n].message

OnlyChars(str, chars) == \A k \in 1..Len(str) : str[k] \in chars

Parent(n) == nodes[nodes[n].parent]

\* a quoted string literal that is no property key
PlainStringLiteral(n) ==
  nodes[n].type = "Literal" /\ nodes[n].isStr /\ ~nodes[n].isKey

TechnicalCallAncestors(i, n) ==
  {x \in getAncestors(nodes, n) :
     nodes[x].type = "CallExpression" /\ x \in inst[i].technicalNodes}

\* ------------------------------------------------------------------------
\* Claims
\* ------------------------------------------------------------------------

\* C1 (as claimed): with no configuration, a string literal that is the
\* value of an attribute of the baseline allow-list (className) gets no
\* finding, whatever the tag of the element.
C1_BaselineAttributeExempt ==
  \A n \in ExitedLiterals :
    (/\ ~options[1].present
     /\ PlainStringLiteral(n)
     /\ Parent(n).type = "JSXAttribute"
     /\ Parent(n).tag = "className")
    => ~Reported(1, n)

\* C2: a string literal below a call tagged as a technical container, at
\* any depth, gets no finding, whatever its text, its position below the
\* call or the complaint recorded for it.
C2_TechnicalContainment ==
  \A i \in Instances : \A n \in ExitedLiterals :
    TechnicalCallAncestors(i, n) # {} => ~Reported(i, n)

\* C2 witness: a literal with a pending property complaint, nested two
\* levels below a technical call, has been left without a finding.
C2_Witness ==
  \E n \in ExitedLiterals :
    /\ isString(nodes[n])
    /\ complaintsHas(inst[1], n)
    /\ TechnicalCallAncestors(1, n) # {}
    /\ nodes[n].parent \notin TechnicalCallAncestors(1, n)
    /\ ~Reported(1, n)

\* C3 (as claimed): a template literal with a ${...} placeholder below a
\* translation container, which no structural rule and no technical
\* container exempts, gets a finding, and the finding carries the
\* placeholder-syntax message.
C3_PlaceholderMessage ==
  \A n \in ExitedLiterals :
    (/\ HasPlaceholder(nodes[n])
     /\ checkTranslationParents(inst[1], nodes, n)
     /\ ~checkTechnicalParents(inst[1], nodes, n)
     /\ n \notin inst[1].visited)
    => (Reported(1, n) /\ MessageOf(1, n) = MsgPlaceholder)

\* C4 (as claimed): a quoted literal, or a template literal without a hole,
\* whose text is made only of upper-case letters, digits, underscore and
\* hyphen and which is no property key gets no finding.
C4_UpperCaseWithDigitsExempt ==
  \A n \in ExitedLiterals :
    (/\ \/ PlainStringLiteral(n)
        \/ nodes[n].type = "TemplateLiteral" /\ ~HasPlaceholder(nodes[n])
     /\ OnlyChars(nodes[n].value, {"A", "B", "_", "-", "1"}))
    => ~Reported(1, n)

\* C4 (amended): a quoted literal whose value is a non-empty text made only
\* of upper-case letters, underscore and hyphen, and which is no property
\* key, gets no finding in any position and under any configuration.
C4_UpperCaseExempt ==
  \A n \in ExitedLiterals :
    (/\ PlainStringLiteral(n)
     /\ nodes[n].value # <<>>
     /\ OnlyChars(nodes[n].value, {"A", "B", "_", "-"}))
    => ~Reported(1, n)

\* C4 witness: an upper-case quoted literal that no other rule exempts (not
\* visited, no tagged ancestor, no matching pattern) has been left without a
\* finding.
C4_Witness ==
  \E n \in ExitedLiterals :
    /\ PlainStringLiteral(n)
    /\ nodes[n].value = <<"A">>
    /\ n \notin inst[1].visited
    /\ ~checkTranslationParents(inst[1], nodes, n)
    /\ ~checkTechnicalParents(inst[1], nodes, n)
    /\ ~match(options[1], nodes[n].value)
    /\ ~Reported(1, n)

\* C5 (as claimed): a quoted literal, a template literal or a text node whose
\* text is empty after trimming gets no finding.
C5_BlankExempt ==
  \A n \in ExitedLiterals :
    (isString(nodes[n]) /\ Trim(nodes[n].value) = <<>>) => ~Reported(1, n)

\* the pattern the second instance has in addition
ExtraPattern ==
  CHOOSE pat \in options[2].ignore : pat \notin options[1].ignore

\* the trimmed text of node n is tested against the patterns and the added
\* pattern matches it
ExtraMatches(n) ==
  nodes[n].isStr /\ RegExpTest(ExtraPattern, Trim(nodes[n].value))

\* C6 (as claimed): when the first run reports a node whose trimmed text the
\* added pattern matches, the run with the added pattern does not report it
\* and gives every other node the verdict of the first run.
C6_PatternOnlyThatNode ==
  \A n \in ExitedLiterals :
    (/\ Reported(1, n)
     /\ RegExpTest(ExtraPattern, Trim(nodes[n].value)))
    => /\ ~Reported(2, n)
       /\ \A m \in ExitedLiterals \ {n} : Reported(1, m) <=> Reported(2, m)

\* C6 (amended): when the first run reports a quoted literal or a text node
\* whose trimmed text the added pattern matches, the run with the added
\* pattern does not report it; every node whose text the added pattern does
\* not match, and every template literal, keeps its verdict and its message.
C6_PatternIdempotence ==
  \A n \in ExitedLiterals :
    IF ExtraMatches(n)
      THEN ~Reported(2, n)
      ELSE /\ Reported(1, n) <=> Reported(2, n)
           /\ Reported(1, n) => MessageOf(1, n) = MessageOf(2, n)

\* C6 witness: the first run reported two nodes; the added pattern matches
\* the text of one, which the second run no longer reports, and not the
\* text of the other, which the second run still reports.
C6_Witness ==
  \E n, m \in ExitedLiterals :
    /\ Reported(1, n) /\ ExtraMatches(n) /\ ~Reported(2, n)
    /\ Reported(1, m) /\ ~ExtraMatches(m) /\ Reported(2, m)

\* C7 (as claimed): a string literal whose trimmed text has no letter gets no
\* finding under any configuration.
C7_NoLettersExempt ==
  \A n \in ExitedLiterals :
    (PlainStringLiteral(n) /\ OnlyChars(Trim(nodes[n].value), {"1", " "}))
    => ~Reported(1, n)

\* C8 (as claimed): with a type checker, a string literal whose contextual
\* type has a string-literal member equal to its value gets no finding.
C8_TypeNarrowingExempt ==
  \A n \in ExitedLiterals :
    (typeChecker /\ PlainStringLiteral(n) /\ nodes[n].typeMatch)
    => ~Reported(1, n)

\* a context in which nothing but the rules on the literal's own value and
\* the binding name can exempt an initializer: the declarator stands at the
\* top level or in the body of a switch case, a module declaration or an
\* export
UntaggedDeclarator(n) ==
  /\ nodes[n].type \in {"Literal", "TemplateLiteral"}
  /\ Parent(n).type = "VariableDeclarator"
  /\ \A x \in getAncestors(nodes, n) :
       nodes[x].type \in {"Program", "VariableDeclarator", "SwitchCase",
                          "TSModuleDeclaration", "ExportNamedDeclaration"}

\* C9 (as claimed): a literal merely nested in a structural construct, as a
\* variable initializer in the body of a switch case, of an export or of a
\* module declaration, is not exempted by the structural rule: with no
\* configuration and a lower-case text and binding name it gets a finding.
C9_NestedInitializerReported ==
  \A n \in ExitedLiterals :
    (/\ ~options[1].present
     /\ UntaggedDeclarator(n)
     /\ PlainStringLiteral(n)
     /\ nodes[n].value = <<"a">>
     /\ Parent(n).name = <<"a">>)
    => Reported(1, n)

\* C10 (as claimed): a literal that directly initializes a binding whose
\* name is made only of upper-case letters, digits, underscore and hyphen
\* gets no finding, whatever its text.
C10_UpperCaseOrDigitNameExempt ==
  \A n \in ExitedLiterals :
    (/\ nodes[n].type \in {"Literal", "TemplateLiteral"}
     /\ Parent(n).type = "VariableDeclarator"
     /\ Parent(n).name # <<>>
     /\ OnlyChars(Parent(n).name, {"A", "B", "_", "-", "1"}))
    => ~Reported(1, n)

\* C10 (amended): a literal that directly initializes a binding whose name
\* is made only of upper-case letters, underscore and hyphen is marked as
\* visited and gets no finding, whatever its text; when the name is not of
\* that form (a digit in it included) the binding-name rule marks nothing,
\* and an initializer that no other rule exempts gets a finding.
C10_BindingName ==
  \A n \in 1..Len(nodes) :
    (nodes[n].type \in {"Literal", "TemplateLiteral"}
       /\ Parent(n).type = "VariableDeclarator")
    => IF Parent(n).name # <<>> /\ OnlyChars(Parent(n).name, {"A", "B", "_", "-"})
         THEN n \in inst[1].visited /\ ~Reported(1, n)
         ELSE (UntaggedDeclarator(n)
                 /\ ~HasAncestorOfType(nodes, n, "TSModuleDeclaration"))
              => /\ n \notin inst[1].visited
                 /\ (/\ n \in ExitedLiterals
                     /\ PlainStringLiteral(n)
                     /\ nodes[n].value = <<"a">>
                     /\ ~match(options[1], <<"a">>))
                    => Reported(1, n)

\* C10 witness: a lower-case text that initializes an upper-case binding has
\* been left without a finding, under a configuration whose patterns do not
\* match it.
C10_Witness ==
  \E n \in ExitedLiterals :
    /\ PlainStringLiteral(n)
    /\ Parent(n).type = "VariableDeclarator"
    /\ Parent(n).name = <<"A", "_">>
    /\ nodes[n].value = <<"b", "a">>
    /\ ~match(options[1], nodes[n].value)
    /\ ~Reported(1, n)

\* an exemption of the exit handler applies to node n in instance i: marked
\* as visited, below a translation container (a template with a placeholder
\* apart), below a technical container, or a quoted text that is blank,
\* upper case or matched by a pattern
Exempt(i, n) ==
  \/ n \in inst[i].visited
  \/ checkTranslationParents(inst[i], nodes, n) /\ ~HasPlaceholder(nodes[n])
  \/ checkTechnicalParents(inst[i], nodes, n)
  \/ /\ nodes[n].isStr
     /\ \/ Trim(nodes[n].value) = <<>>
        \/ isUpperCase(Trim(nodes[n].value))
        \/ match(options[i], Trim(nodes[n].value))

\* a quoted literal that is the non-key value of a property whose key is
\* neither in ignoreProperties nor upper case
PendingPropertyValue(n) ==
  /\ PlainStringLiteral(n)
  /\ Parent(n).type = "Property"
  /\ ~(Parent(n).tag = "Identifier" /\ Parent(n).name \in propWhitelist(options[1]))
  /\ ~isUpperCase(Parent(n).name)

\* C11 (as claimed): for a string literal that is the non-key value of a
\* property whose key is neither in ignoreProperties nor upper case, in a
\* run that no exception ended: nothing is emitted before the node is left;
\* once it is left a finding exists if and only if no exemption applies to
\* the node, and the finding carries the property message.
C11_PropertyMessage ==
  \A n \in 1..Len(nodes) :
    (PendingPropertyValue(n) /\ ~inst[1].aborted)
    => IF n \in ExitedLiterals
         THEN /\ Reported(1, n) <=> ~Exempt(1, n)
              /\ Reported(1, n) => MessageOf(1, n) = MsgProperty
         ELSE ~Reported(1, n)

\* C12 (as claimed): no handler raises an exception that ends the run,
\* whatever the shape of the tree.
C12_NoException == \A i \in Instances : ~inst[i].aborted

\* a text node between two tags
TextNode(n) == nodes[n].type = "JSXText"

\* some strict ancestor of n is the element of a Trans / Translation tag
TransElementAncestor(n) ==
  \E x \in getAncestors(nodes, n) :
    /\ nodes[x].type = "JSXElement"
    /\ \E o \in 1..Len(nodes) :
         /\ nodes[o].parent = x
         /\ nodes[o].type = "JSXOpeningElement"
         /\ nodes[o].tag \in {"Trans", "Translation"}

BinaryOperand(n) ==
  IsLiteralOrTemplate(nodes[n]) /\ Parent(n).type = "BinaryExpression"

\* a handler with a descendant selector marks every literal below these
DescendantStructural ==
  {"ImportDeclaration", "ExportAllDeclaration", "TSModuleDeclaration",
   "TSEnumDeclaration", "TSLiteralType", "Property"}

AttributeAncestors(n) ==
  {a \in getAncestors(nodes, n) : nodes[a].type = "JSXAttribute"}

\* some ignoreTags entry of the option lists attribute A, and tag T or the
\* wildcard; the tag of an entry is one name or a list of names
Covered(opt, T, A) ==
  /\ opt.present
  /\ \E e \in opt.ignoreTags :
       /\ A \in e.attributes
       /\ IF e.tagIsString THEN e.tag \in {T, "*"}
                           ELSE T \in e.tags \/ "*" \in e.tags

\* attribute a, with the tag of the element that owns it, is covered
CoveredAttribute(a) == Covered(options[1], Parent(a).tag, nodes[a].tag)

\* C15: an attribute is tagged as a technical container exactly when an
\* ignoreTags entry lists its name and lists the tag of its element or the
\* wildcard.  A literal inside the value of a tagged attribute gets no
\* finding; a literal inside attribute values of which none is covered, and
\* to which no other exemption applies, gets the attribute finding (a
\* Literal that is a direct child of an element apart: entering it throws).
C15_IgnoreTags ==
  /\ \A a \in 1..Len(nodes) :
       nodes[a].type = "JSXAttribute"
       => (a \in inst[1].technicalNodes <=> CoveredAttribute(a))
  /\ \A n \in ExitedLiterals :
       (isString(nodes[n]) /\ AttributeAncestors(n) # {})
       => IF \E a \in AttributeAncestors(n) : CoveredAttribute(a)
            THEN ~Reported(1, n)
            ELSE IF JSXElementLiteralThrows(nodes, n)
              THEN ~Reported(1, n) /\ inst[1].aborted
              ELSE ~Exempt(1, n)
                   => Reported(1, n) /\ MessageOf(1, n) = MsgAttribute

\* C15 witness: a lower-case literal that is the value of className on a
\* div, covered only by an entry whose tag list holds the wildcard, and that
\* nothing else exempts, has been left without a finding.
C15_Witness ==
  \E n \in ExitedLiterals :
    /\ PlainStringLiteral(n)
    /\ Parent(n).type = "JSXAttribute"
    /\ Parent(n).tag = "className"
    /\ nodes[Parent(n).parent].tag = "div"
    /\ CoveredAttribute(nodes[n].parent)
    /\ \A e \in options[1].ignoreTags : "div" \notin e.tags /\ e.tag # "div"
    /\ ~match(options[1], Trim(nodes[n].value))
    /\ ~isUpperCase(Trim(nodes[n].value))
    /\ Trim(nodes[n].value) # <<>>
    /\ ~Reported(1, n)

\* node x is a container the rule tags as a translation container
QualifiesTranslation(x) ==
  \/ nodes[x].type = "CallExpression" /\ isTranlationFunctionCall(options[1], nodes[x])
  \/ /\ nodes[x].type = "TaggedTemplateExpression"
     /\ nodes[x].calleeType \in {"Identifier", "CallExpression"}
     /\ nodes[x].tag \in {"t", "T"}
  \/ /\ nodes[x].type = "JSXElement"
     /\ \E o \in 1..Len(nodes) :
          /\ nodes[o].parent = x
          /\ nodes[o].type = "JSXOpeningElement"
          /\ nodes[o].tag \in {"Trans", "Translation"}

\* node x is a container the rule tags as a technical container
QualifiesTechnical(x) ==
  \/ nodes[x].type = "CallExpression" /\ isTechnicalFunctionCall(options[1], nodes[x])
  \/ nodes[x].type = "JSXAttribute" /\ CoveredAttribute(x)

\* every ancestor of n that qualifies is in its table
AncestorsTagged(n) ==
  \A x \in getAncestors(nodes, n) :
    /\ QualifiesTranslation(x) => x \in inst[1].translationNodes
    /\ QualifiesTechnical(x) => x \in inst[1].technicalNodes

BareItems(opt) ==
  {c[1] : c \in {d \in (IF opt.present THEN opt.ignoreCallee ELSE {}) : Len(d) = 1}}

DottedItems(opt) ==
  {c \in (IF opt.present THEN opt.ignoreCallee ELSE {}) : Len(c) > 1}

\* the names after the last k names of a dotted callee are the item
EndsWithItem(callee, item) ==
  /\ Len(item) <= Len(callee)
  /\ SubSeq(callee, Len(callee) - Len(item) + 1, Len(callee)) = item

\* the call is technical as the claim words it
TechnicalAsClaimed(opt, node) ==
  LET simple == popularCallee \cup BareItems(opt)
  IN \/ node.calleeType = "Import"
     \/ node.calleeType = "Identifier" /\ node.callee[1] = "require"
     \/ node.calleeType = "Identifier" /\ node.callee[1] \in simple
     \/ /\ node.calleeType = "MemberExpression"
        /\ \/ node.callee[Len(node.callee)] \in simple
           \/ \E item \in DottedItems(opt) : EndsWithItem(node.callee, item)

\* C17: a call of the script is tagged as a technical container exactly when
\* its callee is import or require, a bare name of the simple set, a member
\* access whose property is in the simple set, or a member access whose
\* dotted form is a dotted item or ends with "." and a dotted item.  The
\* simple set is the baseline callees and the items without a "."; the
\* qualified set is the items with one.  With the item socket.on, socket.on
\* and this.socket.on are tagged and xsocket.on is not.
C17_TechnicalCallee ==
  /\ generateCalleeWhitelists(options[1]).simple = popularCallee \cup BareItems(options[1])
  /\ generateCalleeWhitelists(options[1]).complex = DottedItems(options[1])
  /\ \A x \in 1..Len(nodes) :
       (nodes[x].type = "CallExpression" /\ ~InTemplateBody(nodes, x))
       => /\ x \in inst[1].technicalNodes <=> TechnicalAsClaimed(options[1], nodes[x])
          /\ <<"socket", "on">> \in DottedItems(options[1])
             => /\ nodes[x].callee \in {<<"socket", "on">>, <<"this", "socket", "on">>}
                   => x \in inst[1].technicalNodes
                /\ nodes[x].callee = <<"xsocket", "on">>
                   => x \notin inst[1].technicalNodes

\* C17 witness: with the item socket.on, a lower-case literal below a call of
\* this.socket.on, which no pattern matches, has been left without a finding.
C17_Witness ==
  \E n \in ExitedLiterals :
    /\ PlainStringLiteral(n)
    /\ nodes[n].value = <<"b", "a">>
    /\ ~match(options[1], <<"b", "a">>)
    /\ Parent(n).type = "CallExpression"
    /\ Parent(n).callee = <<"this", "socket", "on">>
    /\ <<"socket", "on">> \in DottedItems(options[1])
    /\ nodes[n].parent \in inst[1].technicalNodes
    /\ n \notin inst[1].visited
    /\ ~Reported(1, n)

====
